---- MODULE Spec2Model ----
(***************************************************************************)
(* Model of the SMA-dispersion scanner (src/dispersion_scanner.py), of the *)
(* configuration it reads (src/config.py), and of its hosts: run_scan and  *)
(* print_summary (src/main.py), send_alert and the e-mail bodies           *)
(* (src/email_alerts.py), generate_all_charts (src/visualization.py) and   *)
(* the daily scheduler (src/scheduler.py).                                 *)
(*                                                                         *)
(* Floating-point values are modelled as exact rationals num/den (den > 0, *)
(* lowest terms) together with the three IEEE specials the code can        *)
(* produce: NaN, +inf and -inf.  Comparisons follow IEEE (every ordered    *)
(* comparison with NaN is false); round(x, 2) is round-half-to-even on the *)
(* exact value.  Dates are modelled by the row number of the downloaded    *)
(* frame (the feed returns rows in ascending date order).  Of the columns  *)
(* of the downloaded frame only Close is modelled; the others are taken to *)
(* hold a value on every row.                                              *)
(***************************************************************************)
EXTENDS Integers, Sequences, FiniteSets, TLC

VARIABLES
    \* get_opportunities_summary / scan_all_tickers / filter_opportunities
    pc,         \* position of the caller: "loop", "scanned", "summarized", "filtered"
    tickers,    \* the input list of scan_all_tickers
    i,          \* number of loop iterations of scan_all_tickers completed
    results,    \* the local list `results` of scan_all_tickers
    log,        \* records written to the logger, oldest first
    df,         \* the DataFrame returned by scan_all_tickers (a sequence of rows)
    summary,    \* the dict returned by get_opportunities_summary
    f_thr,      \* threshold of a direct filter_opportunities(df, t) call
    f_out,      \* its returned pair [buy, sell]
    \* one call of calculate_sma_dispersion / get_ticker_dispersion
    e_pc,       \* "idle", "called"
    e_feed,     \* what yf.download does for the ticker: raise, or a series of closes
    e_period,   \* the period argument
    e_data,     \* return value of calculate_sma_dispersion
    e_res,      \* return value of get_ticker_dispersion
    e_log,      \* records the call wrote to the logger
    e_alt,      \* outcome of price_sma_dispersion.calculate_sma_dispersion
    \* one call of classify_signal
    c_pc,       \* "idle", "called"
    c_x,        \* dispersion argument, in half percent (c_x / 2)
    c_t,        \* threshold argument, in half percent (c_t / 2)
    c_out,      \* returned signal
    \* one call of main.run_scan
    r_pc,       \* "idle", "scanned", "charted", "mailed", "returned", "raised",
                \* "exited"
    r_args,     \* the arguments tickers, send_email, test_mode, generate_charts
    r_tickers,  \* the local `tickers` after the defaults are applied
    r_summary,  \* the local `summary`
    r_out,      \* lines printed to stdout, oldest first
    r_log,      \* messages run_scan wrote to the logger, oldest first
    r_charts,   \* what generate_all_charts did
    r_mail,     \* what send_alert did
    r_ret,      \* the value returned to the caller
    r_exit,     \* the exit code main returns after run_scan, -1 before
    \* one direct call of email_alerts.send_alert
    m_pc,       \* "idle", "called"
    m_in,       \* summary, test_mode, EMAIL_CONFIG and what the SMTP server does
    m_out,      \* what send_alert did and returned
    \* the scheduler process (src/scheduler.py)
    s_pc,       \* "boot", "loop", "exited", "crashed"
    s_mode,     \* command line: "once", "run_now", "daily"
    s_today,    \* datetime.now().weekday(): 0 = Monday .. 6 = Sunday
    s_elapsed,  \* days since the process started
    s_passed,   \* whether today's scan time is already behind
    s_log,      \* what scheduled_scan did: log records and run_scan calls, oldest first
    \* one direct call of visualization.generate_all_charts
    g_pc,       \* "idle", "called"
    g_in,       \* the tickers, whether os.makedirs succeeds, and per ticker the
                \* data and whether the figure renders
    g_out       \* the returned summary, or that the call raised

vars == <<pc, tickers, i, results, log, df, summary, f_thr, f_out,
          e_pc, e_feed, e_period, e_data, e_res, e_log, e_alt,
          c_pc, c_x, c_t, c_out,
          r_pc, r_args, r_tickers, r_summary, r_out, r_log, r_charts, r_mail, r_ret,
          r_exit,
          m_pc, m_in, m_out,
          s_pc, s_mode, s_today, s_elapsed, s_passed, s_log,
          g_pc, g_in, g_out>>

scanVars == <<pc, tickers, i, results, log, df, summary, f_thr, f_out>>
engineVars == <<e_pc, e_feed, e_period, e_data, e_res, e_log, e_alt>>
classifyVars == <<c_pc, c_x, c_t, c_out>>
runVars == <<r_pc, r_args, r_tickers, r_summary, r_out, r_log, r_charts, r_mail, r_ret,
            r_exit>>
mailVars == <<m_pc, m_in, m_out>>
schedVars == <<s_pc, s_mode, s_today, s_elapsed, s_passed, s_log>>
chartVars == <<g_pc, g_in, g_out>>
\* the variables of main.py, email_alerts.py, scheduler.py and visualization.py
hostVars == <<runVars, mailVars, schedVars, chartVars>>

----------------------------------------------------------------------------
(* Bounds of the model.                                                    *)

\* longest series the feed returns in the single-call specification
MaxLen == 4
\* largest period argument in the single-call specification
MaxPeriod == 3
\* longest input list of scan_all_tickers
MaxTickers == 2
\* classify_signal arguments: |x| <= MaxX/2 percent, 0 < t <= MaxT/2 percent
MaxX == 8
MaxT == 6
\* days the scheduler process is followed after its start
MaxDays == 3

----------------------------------------------------------------------------
(* Floating-point values.                                                  *)

Abs(n) == IF n < 0 THEN -n ELSE n

RECURSIVE Gcd(_, _)
Gcd(a, b) == IF b = 0 THEN a ELSE Gcd(b, a % b)

\* the rational n/d (d # 0) in lowest terms with a positive denominator
Fin(n, d) ==
    LET g == Gcd(Abs(n), Abs(d))
        s == IF d < 0 THEN -1 ELSE 1
    IN  [kind |-> "fin", num |-> s * (n \div g), den |-> s * (d \div g)]

NaN == [kind |-> "nan", num |-> 0, den |-> 1]
PosInf == [kind |-> "inf", num |-> 1, den |-> 1]
NegInf == [kind |-> "inf", num |-> -1, den |-> 1]

IsNaN(a) == a.kind = "nan"
IsFinite(a) == a.kind = "fin"

\* a <= b on floats (False when either is NaN)
Le(a, b) ==
    IF IsNaN(a) \/ IsNaN(b) THEN FALSE
    ELSE IF a.kind = "inf" THEN a.num < 0 \/ (b.kind = "inf" /\ b.num > 0)
    ELSE IF b.kind = "inf" THEN b.num > 0
    ELSE a.num * b.den <= b.num * a.den

\* a >= b on floats
Ge(a, b) == Le(b, a)

\* a < b on floats
Lt(a, b) == Le(a, b) /\ ~Le(b, a)

\* unary minus
Neg(a) ==
    IF IsNaN(a) THEN NaN
    ELSE IF a.kind = "inf" THEN [a EXCEPT !.num = -a.num]
    ELSE Fin(-a.num, a.den)

\* a - b for finite or NaN operands
Sub(a, b) ==
    IF ~IsFinite(a) \/ ~IsFinite(b) THEN NaN
    ELSE Fin(a.num * b.den - b.num * a.den, a.den * b.den)

\* a / b for finite or NaN operands: x/0 is +-inf, 0/0 is NaN
Div(a, b) ==
    IF ~IsFinite(a) \/ ~IsFinite(b) THEN NaN
    ELSE IF b.num = 0
         THEN IF a.num = 0 THEN NaN ELSE IF a.num > 0 THEN PosInf ELSE NegInf
    ELSE Fin(a.num * b.den, a.den * b.num)

\* a * 100
Times100(a) == IF IsFinite(a) THEN Fin(100 * a.num, a.den) ELSE a

\* the integer nearest to n/d (d > 0), halves to the even neighbour
RoundHalfEven(n, d) ==
    LET q == n \div d
        r == n % d
    IN  IF 2 * r < d THEN q
        ELSE IF 2 * r > d THEN q + 1
        ELSE IF q % 2 = 0 THEN q ELSE q + 1

\* Python's round(a, 2): NaN and the infinities are returned unchanged
Round2(a) ==
    IF IsFinite(a) THEN Fin(RoundHalfEven(100 * a.num, a.den), 100) ELSE a

----------------------------------------------------------------------------
(* config.py                                                               *)

SMA_PERIOD == 29

DISPERSION_THRESHOLD == Fin(15, 1)

----------------------------------------------------------------------------
(* classify_signal                                                         *)

\* the same with the boundary excluded
classify_signal_strict(dispersion, threshold) ==
    IF Lt(dispersion, Neg(threshold)) THEN "BUY"
    ELSE IF Lt(threshold, dispersion) THEN "SELL"
    ELSE "HOLD"

\* the same with the two labels exchanged
classify_signal_swapped(dispersion, threshold) ==
    IF Le(dispersion, Neg(threshold)) THEN "SELL"
    ELSE IF Ge(dispersion, threshold) THEN "BUY"
    ELSE "HOLD"

classify_signal(dispersion, threshold) ==
    IF Le(dispersion, Neg(threshold)) THEN "BUY"
    ELSE IF Ge(dispersion, threshold) THEN "SELL"
    ELSE "HOLD"

----------------------------------------------------------------------------
(* calculate_sma_dispersion                                                *)

\* a + b for finite or NaN operands
Add(a, b) ==
    IF ~IsFinite(a) \/ ~IsFinite(b) THEN NaN
    ELSE Fin(a.num * b.den + b.num * a.den, a.den * b.den)

\* acc + closes[lo] + ... + closes[hi]
RECURSIVE SumFrom(_, _, _, _)
SumFrom(closes, lo, hi, acc) ==
    IF lo > hi THEN acc
    ELSE LET next == Add(acc, closes[lo])
         IN  IF IsNaN(next) THEN NaN ELSE SumFrom(closes, lo + 1, hi, next)

\* closes[lo] + ... + closes[hi]
SumRange(closes, lo, hi) == SumFrom(closes, lo, hi, Fin(0, 1))

\* rolling(window=period, min_periods=1).mean(): a value as soon as one row exists
rolling_mean_min1(closes, period, k) ==
    LET lo == IF k - period + 1 < 1 THEN 1 ELSE k - period + 1
    IN  Div(SumRange(closes, lo, k), Fin(k - lo + 1, 1))

\* rolling(window=period).sum(): the window's total, not divided by its length
rolling_mean_sum(closes, period, k) ==
    IF k < period THEN NaN
    ELSE SumRange(closes, k - period + 1, k)

\* data['Close'].rolling(window=period).mean() at row k: NaN until `period`
\* rows exist, and NaN when the window holds a NaN close
rolling_mean(closes, period, k) ==
    IF k < period THEN NaN
    ELSE Div(SumRange(closes, k - period + 1, k), Fin(period, 1))

\* the distance taken relative to the close: ((Close - SMA) / Close) * 100
dispersion_of_close(close, sma) == Times100(Div(Sub(close, sma), close))

\* ((Close - SMA) / SMA) * 100
dispersion_of(close, sma) == Times100(Div(Sub(close, sma), sma))

\* the frame after the two column assignments, one row per downloaded date
frame_rows(closes, period) ==
    [k \in 1..Len(closes) |->
        LET sma == rolling_mean(closes, period, k)
        IN  [date |-> k, Close |-> closes[k], SMA |-> sma,
             Dispersion |-> dispersion_of(closes[k], sma)]]

\* a row dropna() keeps: no NaN in any of its columns (an infinity is not NaN)
row_is_complete(row) ==
    ~IsNaN(row.Close) /\ ~IsNaN(row.SMA) /\ ~IsNaN(row.Dispersion)

dropna(rows) == SelectSeq(rows, row_is_complete)

\* Optional[pd.DataFrame]
NoneDF == [isNone |-> TRUE, rows |-> <<>>]
SomeDF(rows) == [isNone |-> FALSE, rows |-> rows]

\* what yf.download does: raise, or return a frame with these closes
Raises == [raises |-> TRUE, closes |-> <<>>]
Returns(closes) == [raises |-> FALSE, closes |-> closes]

\* a log record: level, message, ticker and the two numbers of the message
LogRec(level, msg, ticker, n, of) ==
    [level |-> level, msg |-> msg, ticker |-> ticker, n |-> n, of |-> of]

\* "Insufficient data for {ticker}: {len(data)} rows (need {period})"
LogWarnInsufficient(ticker, rows, need) ==
    LogRec("warning", "Insufficient data", ticker, rows, need)

\* "Error processing {ticker}: {e}"
LogErrorProcessing(ticker) == LogRec("error", "Error processing", ticker, 0, 0)

\* the same without the `len(data) < period` test: only an empty frame is refused
calculate_sma_dispersion_nolen(ticker, period, feed) ==
    IF feed.raises
    THEN [ret |-> NoneDF, log |-> <<LogErrorProcessing(ticker)>>]
    ELSE IF Len(feed.closes) = 0
    THEN [ret |-> NoneDF,
          log |-> <<LogWarnInsufficient(ticker, Len(feed.closes), period)>>]
    ELSE [ret |-> SomeDF(dropna(frame_rows(feed.closes, period))), log |-> <<>>]

\* the same with an empty download handed back as an empty frame
calculate_sma_dispersion_emptyframe(ticker, period, feed) ==
    IF feed.raises
    THEN [ret |-> NoneDF, log |-> <<LogErrorProcessing(ticker)>>]
    ELSE IF Len(feed.closes) = 0
    THEN [ret |-> SomeDF(<<>>), log |-> <<>>]
    ELSE IF Len(feed.closes) < period
    THEN [ret |-> NoneDF,
          log |-> <<LogWarnInsufficient(ticker, Len(feed.closes), period)>>]
    ELSE [ret |-> SomeDF(dropna(frame_rows(feed.closes, period))), log |-> <<>>]

\* returns [ret |-> the returned Optional[DataFrame], log |-> the records logged]
calculate_sma_dispersion(ticker, period, feed) ==
    IF feed.raises
    THEN [ret |-> NoneDF, log |-> <<LogErrorProcessing(ticker)>>]
    ELSE IF Len(feed.closes) = 0 \/ Len(feed.closes) < period
    THEN [ret |-> NoneDF,
          log |-> <<LogWarnInsufficient(ticker, Len(feed.closes), period)>>]
    ELSE [ret |-> SomeDF(dropna(frame_rows(feed.closes, period))), log |-> <<>>]

\* price_sma_dispersion.calculate_sma_dispersion: what the call does, an
\* exception leaving it (raises) or the frame it returns (rows)
NoSeries == [raises |-> FALSE, rows |-> <<>>]
Raised == [raises |-> TRUE, rows |-> <<>>]

\* the download exception is not caught; an empty download raises
\* ValueError; there is no test of the number of rows
psd_calculate_sma_dispersion(ticker, period, feed) ==
    IF feed.raises THEN Raised
    ELSE IF Len(feed.closes) = 0 THEN Raised
    ELSE [raises |-> FALSE, rows |-> dropna(frame_rows(feed.closes, period))]

----------------------------------------------------------------------------
(* get_ticker_dispersion                                                   *)

\* Optional[Dict]
NoneResult ==
    [isNone |-> TRUE, ticker |-> "", date |-> 0, close_price |-> NaN,
     sma |-> NaN, dispersion_pct |-> NaN, signal |-> ""]

\* the same reporting the oldest point of the series: data_clean.iloc[0]
get_ticker_dispersion_first(ticker, period, feed) ==
    LET c == calculate_sma_dispersion(ticker, period, feed)
        data == c.ret
    IN  IF data.isNone \/ Len(data.rows) = 0
        THEN [ret |-> NoneResult, data |-> data, log |-> c.log]
        ELSE LET latest == data.rows[1]
                 dispersion == latest.Dispersion
             IN  [ret |-> [isNone |-> FALSE,
                           ticker |-> ticker,
                           date |-> latest.date,
                           close_price |-> Round2(latest.Close),
                           sma |-> Round2(latest.SMA),
                           dispersion_pct |-> Round2(dispersion),
                           signal |-> classify_signal(dispersion, DISPERSION_THRESHOLD)],
                  data |-> data, log |-> c.log]

\* returns [ret |-> the returned Optional[Dict], data |-> the local `data`,
\*          log |-> the records logged]
get_ticker_dispersion(ticker, period, feed) ==
    LET c == calculate_sma_dispersion(ticker, period, feed)
        data == c.ret
    IN  IF data.isNone \/ Len(data.rows) = 0
        THEN [ret |-> NoneResult, data |-> data, log |-> c.log]
        ELSE LET latest == data.rows[Len(data.rows)]
                 dispersion == latest.Dispersion
             IN  [ret |-> [isNone |-> FALSE,
                           ticker |-> ticker,
                           date |-> latest.date,
                           close_price |-> Round2(latest.Close),
                           sma |-> Round2(latest.SMA),
                           dispersion_pct |-> Round2(dispersion),
                           signal |-> classify_signal(dispersion, DISPERSION_THRESHOLD)],
                  data |-> data, log |-> c.log]

----------------------------------------------------------------------------
(* Single calls of classify_signal, calculate_sma_dispersion and           *)
(* get_ticker_dispersion on arguments drawn from bounded sets.             *)

SeqsUpTo(S, n) == UNION {[1..k -> S] : k \in 0..n}

\* n copies of the close a followed by the close c
ConstThen(n, a, c) == [k \in 1..(n + 1) |-> IF k <= n THEN Fin(a, 1) ELSE Fin(c, 1)]

\* closes the feed may hand back: missing (NaN), zero, negative and positive
EngineCloses == {NaN} \cup {Fin(c, 1) : c \in {-1, 0, 1, 2}}

EngineFeeds == {Raises} \cup {Returns(cl) : cl \in SeqsUpTo(EngineCloses, MaxLen)}

EngineTicker == "ARKK"

\* a call with the configured period: 28 closes of 100 followed by a close of 80
ScenarioDrop == Returns(ConstThen(SMA_PERIOD - 1, 100, 80))

\* a call with the configured period whose last close is 150 and whose
\* average is 120: 27 closes of 120, then 90, then 150
ScenarioRise == Returns(ConstThen(SMA_PERIOD - 2, 120, 90) \o <<Fin(150, 1)>>)

ScanIdle ==
    /\ pc = "unused" /\ tickers = <<>> /\ i = 0 /\ results = <<>> /\ log = <<>>
    /\ df = <<>> /\ summary = <<>> /\ f_thr = NaN /\ f_out = <<>>

EngineIdle ==
    /\ e_pc = "unused" /\ e_feed = Raises /\ e_period = 0
    /\ e_data = NoneDF /\ e_res = NoneResult /\ e_log = <<>>
    /\ e_alt = NoSeries

ClassifyIdle ==
    /\ c_pc = "unused" /\ c_x = 0 /\ c_t = 0 /\ c_out = ""

\* a local that holds no summary yet
Unassigned ==
    [all_data |-> <<>>, buy_opportunities |-> <<>>, sell_opportunities |-> <<>>,
     tickers_scanned |-> -1, total_opportunities |-> -1]

\* generate_all_charts was not called
NoCharts == [called |-> FALSE, raised |-> FALSE, total |-> 0, successful |-> 0,
             failed |-> 0]

\* send_alert was not called
NoMail == [called |-> FALSE, ret |-> FALSE, built |-> FALSE, connected |-> FALSE,
           handed |-> FALSE, text |-> <<>>, html |-> <<>>, stdout |-> <<>>,
           log |-> <<>>]

RunIdle ==
    /\ r_pc = "unused" /\ r_args = <<>> /\ r_tickers = <<>>
    /\ r_summary = Unassigned /\ r_out = <<>> /\ r_log = <<>>
    /\ r_charts = NoCharts /\ r_mail = NoMail /\ r_ret = Unassigned
    /\ r_exit = -1

MailIdle ==
    /\ m_pc = "unused" /\ m_in = <<>> /\ m_out = NoMail

SchedIdle ==
    /\ s_pc = "unused" /\ s_mode = "" /\ s_today = 0 /\ s_elapsed = 0
    /\ s_passed = FALSE /\ s_log = <<>>

\* generate_all_charts returned nothing
NoChartSummary ==
    [called |-> FALSE, raised |-> FALSE, total |-> 0, successful |-> 0,
     failed |-> 0, successful_tickers |-> <<>>, failed_tickers |-> <<>>]

ChartIdle ==
    /\ g_pc = "unused" /\ g_in = <<>> /\ g_out = NoChartSummary

HostIdle == RunIdle /\ MailIdle /\ SchedIdle /\ ChartIdle

InitEngine ==
    /\ ScanIdle /\ ClassifyIdle /\ HostIdle
    /\ e_pc = "idle"
    /\ \/ e_feed \in EngineFeeds /\ e_period \in 1..MaxPeriod
       \/ e_feed \in {ScenarioDrop, ScenarioRise} /\ e_period = SMA_PERIOD
    /\ e_data = NoneDF /\ e_res = NoneResult /\ e_log = <<>>
    /\ e_alt = NoSeries

\* a caller invokes calculate_sma_dispersion(ticker, period)
CallCalculate ==
    /\ e_pc = "idle"
    /\ LET c == calculate_sma_dispersion(EngineTicker, e_period, e_feed)
       IN  e_data' = c.ret /\ e_log' = c.log
    /\ e_pc' = "calculated"
    /\ UNCHANGED <<e_feed, e_period, e_res, e_alt>>
    /\ UNCHANGED scanVars /\ UNCHANGED classifyVars /\ UNCHANGED hostVars

\* a caller invokes get_ticker_dispersion(ticker, period)
CallTicker ==
    /\ e_pc = "idle"
    /\ LET g == get_ticker_dispersion(EngineTicker, e_period, e_feed)
       IN  e_res' = g.ret /\ e_data' = g.data /\ e_log' = g.log
    /\ e_pc' = "reported"
    /\ UNCHANGED <<e_feed, e_period, e_alt>>
    /\ UNCHANGED scanVars /\ UNCHANGED classifyVars /\ UNCHANGED hostVars

\* a caller invokes price_sma_dispersion.calculate_sma_dispersion(ticker, period)
CallPriceCalculate ==
    /\ e_pc = "idle"
    /\ e_alt' = psd_calculate_sma_dispersion(EngineTicker, e_period, e_feed)
    /\ e_pc' = "calculated_psd"
    /\ UNCHANGED <<e_feed, e_period, e_data, e_res, e_log>>
    /\ UNCHANGED scanVars /\ UNCHANGED classifyVars /\ UNCHANGED hostVars

NextEngine == CallCalculate \/ CallTicker \/ CallPriceCalculate

SpecEngine == InitEngine /\ [][NextEngine]_vars

InitClassify ==
    /\ ScanIdle /\ EngineIdle /\ HostIdle
    /\ c_pc = "idle"
    /\ c_x \in -MaxX..MaxX
    /\ c_t \in 1..MaxT
    /\ c_out = ""

\* a caller invokes classify_signal(c_x / 2, c_t / 2)
CallClassify ==
    /\ c_pc = "idle"
    /\ c_out' = classify_signal(Fin(c_x, 2), Fin(c_t, 2))
    /\ c_pc' = "called"
    /\ UNCHANGED <<c_x, c_t>>
    /\ UNCHANGED scanVars /\ UNCHANGED engineVars /\ UNCHANGED hostVars

NextClassify == CallClassify

SpecClassify == InitClassify /\ [][NextClassify]_vars

----------------------------------------------------------------------------
(* scan_all_tickers, filter_opportunities, get_opportunities_summary       *)

\* df.sort_values('dispersion_pct', ascending=...): the orders of the rows
\* the sort can produce.  The default kind is numpy's quicksort, which sorts
\* up to 16 elements by insertion and so keeps rows with equal dispersion_pct
\* in their given order (in both directions); on longer frames the order of
\* equal rows is left to the algorithm: every sorted permutation.
sort_values(rows, ascending) ==
    LET n == Len(rows)
        Key(k) == rows[k].dispersion_pct
        InOrder(a, b) == IF ascending THEN Le(Key(a), Key(b)) ELSE Ge(Key(a), Key(b))
        Orders == {f \in [1..n -> 1..n] :
                      /\ \A a, b \in 1..n : a # b => f[a] # f[b]
                      /\ \A a, b \in 1..n : a < b => InOrder(f[a], f[b])
                      /\ n <= 16 =>
                            \A a, b \in 1..n :
                                (a < b /\ Key(f[a]) = Key(f[b])) => f[a] < f[b]}
    IN  {[k \in 1..n |-> rows[f[k]]] : f \in Orders}

\* "Scanning {total} tickers..."
LogScanning(total) == LogRec("info", "Scanning", "", total, total)

\* "Processing {ticker} ({i}/{total})..."
LogProcessing(ticker, k, total) == LogRec("info", "Processing", ticker, k, total)

\* "Could not get data for {ticker}"
LogCouldNotGet(ticker) == LogRec("warning", "Could not get data", ticker, 0, 0)

\* "No data retrieved for any ticker"
LogNoData == LogRec("warning", "No data retrieved", "", 0, 0)

\* what the feed does for one ticker of a scan with the 29-day average:
\* raise; no rows; too few rows; a drop to -19.44% (BUY); no move (HOLD); a
\* rise to 19.18% (SELL); -14.998% and 14.995%, inside the threshold but
\* rounded to -15.00 and 15.00; and closes that are all zero.
FeedSamples ==
    {Raises, Returns(<<>>), Returns(ConstThen(3, 100, 80))} \cup
    {Returns(ConstThen(SMA_PERIOD - 1, s[1], s[2])) :
        s \in {<<100, 80>>, <<100, 100>>, <<100, 120>>, <<233, 197>>,
               <<301, 348>>, <<0, 0>>}}

\* symbols of the configured list
Tickers == {"ARKK", "CRESY"}

Init ==
    /\ EngineIdle /\ ClassifyIdle /\ HostIdle
    /\ pc = "loop"
    /\ tickers \in SeqsUpTo(Tickers, MaxTickers)
    /\ i = 0 /\ results = <<>> /\ log = <<LogScanning(Len(tickers))>>
    /\ df = <<>> /\ summary = <<>> /\ f_thr = NaN /\ f_out = <<>>

\* the loop body with a `break` on the first ticker without a result
ScanStepAbort ==
    /\ pc = "loop" /\ i < Len(tickers)
    /\ \E feed \in FeedSamples :
          LET ticker == tickers[i + 1]
              g == get_ticker_dispersion(ticker, SMA_PERIOD, feed)
          IN  IF ~g.ret.isNone
              THEN /\ results' = Append(results, g.ret)
                   /\ log' = log \o <<LogProcessing(ticker, i + 1, Len(tickers))>> \o g.log
                   /\ i' = i + 1
              ELSE /\ results' = results
                   /\ log' = log \o <<LogProcessing(ticker, i + 1, Len(tickers))>>
                                 \o g.log \o <<LogCouldNotGet(ticker)>>
                   /\ i' = Len(tickers)
    /\ UNCHANGED <<pc, tickers, df, summary, f_thr, f_out>>
    /\ UNCHANGED engineVars /\ UNCHANGED classifyVars /\ UNCHANGED hostVars

\* one iteration of the loop of scan_all_tickers: the next ticker is
\* downloaded and measured; its result is appended, or its failure logged
ScanStep ==
    /\ pc = "loop" /\ i < Len(tickers)
    /\ \E feed \in FeedSamples :
          LET ticker == tickers[i + 1]
              g == get_ticker_dispersion(ticker, SMA_PERIOD, feed)
          IN  IF ~g.ret.isNone
              THEN /\ results' = Append(results, g.ret)
                   /\ log' = log \o <<LogProcessing(ticker, i + 1, Len(tickers))>> \o g.log
              ELSE /\ results' = results
                   /\ log' = log \o <<LogProcessing(ticker, i + 1, Len(tickers))>>
                                 \o g.log \o <<LogCouldNotGet(ticker)>>
    /\ i' = i + 1
    /\ UNCHANGED <<pc, tickers, df, summary, f_thr, f_out>>
    /\ UNCHANGED engineVars /\ UNCHANGED classifyVars /\ UNCHANGED hostVars

\* the end of scan_all_tickers with the sort left out
ScanFinishUnsorted ==
    /\ pc = "loop" /\ i = Len(tickers)
    /\ IF results = <<>>
       THEN log' = Append(log, LogNoData) /\ df' = <<>>
       ELSE log' = log /\ df' = results
    /\ pc' = "scanned"
    /\ UNCHANGED <<tickers, i, results, summary, f_thr, f_out>>
    /\ UNCHANGED engineVars /\ UNCHANGED classifyVars /\ UNCHANGED hostVars

\* the end of scan_all_tickers: an empty frame when nothing was retrieved,
\* else the results sorted by dispersion_pct
ScanFinish ==
    /\ pc = "loop" /\ i = Len(tickers)
    /\ IF results = <<>>
       THEN log' = Append(log, LogNoData) /\ df' = <<>>
       ELSE log' = log /\ df' \in sort_values(results, TRUE)
    /\ pc' = "scanned"
    /\ UNCHANGED <<tickers, i, results, summary, f_thr, f_out>>
    /\ UNCHANGED engineVars /\ UNCHANGED classifyVars /\ UNCHANGED hostVars

\* the same with the buy test written `<= threshold`
filter_opportunities_sign(frame, threshold) ==
    LET IsBuy(r) == Le(r.dispersion_pct, threshold)
        IsSell(r) == Ge(r.dispersion_pct, threshold)
    IN  IF frame = <<>> THEN {[buy |-> <<>>, sell |-> <<>>]}
        ELSE {[buy |-> b, sell |-> s] :
                 b \in sort_values(SelectSeq(frame, IsBuy), TRUE),
                 s \in sort_values(SelectSeq(frame, IsSell), FALSE)}

\* the same with the sell list sorted like the buy list
filter_opportunities_asc(frame, threshold) ==
    LET IsBuy(r) == Le(r.dispersion_pct, Neg(threshold))
        IsSell(r) == Ge(r.dispersion_pct, threshold)
    IN  IF frame = <<>> THEN {[buy |-> <<>>, sell |-> <<>>]}
        ELSE {[buy |-> b, sell |-> s] :
                 b \in sort_values(SelectSeq(frame, IsBuy), TRUE),
                 s \in sort_values(SelectSeq(frame, IsSell), TRUE)}

\* the pairs (buy_opportunities, sell_opportunities) the call can return
filter_opportunities(frame, threshold) ==
    LET IsBuy(r) == Le(r.dispersion_pct, Neg(threshold))
        IsSell(r) == Ge(r.dispersion_pct, threshold)
    IN  IF frame = <<>> THEN {[buy |-> <<>>, sell |-> <<>>]}
        ELSE {[buy |-> b, sell |-> s] :
                 b \in sort_values(SelectSeq(frame, IsBuy), TRUE),
                 s \in sort_values(SelectSeq(frame, IsSell), FALSE)}

\* thresholds of direct filter_opportunities calls
FilterThresholds == {Fin(1, 2), DISPERSION_THRESHOLD, Fin(19, 1)}

\* a caller of scan_all_tickers passes its frame to filter_opportunities(df, t)
FilterCall ==
    /\ pc = "scanned"
    /\ \E t \in FilterThresholds :
          /\ f_thr' = t
          /\ f_out' \in filter_opportunities(df, t)
    /\ pc' = "filtered"
    /\ UNCHANGED <<tickers, i, results, log, df, summary>>
    /\ UNCHANGED engineVars /\ UNCHANGED classifyVars /\ UNCHANGED hostVars

\* the same counting the buy list only
summary_of_buyonly(frame) ==
    IF frame = <<>>
    THEN {[all_data |-> <<>>, buy_opportunities |-> <<>>, sell_opportunities |-> <<>>,
           tickers_scanned |-> 0, total_opportunities |-> 0]}
    ELSE {[all_data |-> frame,
           buy_opportunities |-> f.buy,
           sell_opportunities |-> f.sell,
           tickers_scanned |-> Len(frame),
           total_opportunities |-> Len(f.buy)] :
             f \in filter_opportunities(frame, DISPERSION_THRESHOLD)}

\* the dicts get_opportunities_summary can return for the scanned frame
\* (scan_time left out)
summary_of(frame) ==
    IF frame = <<>>
    THEN {[all_data |-> <<>>, buy_opportunities |-> <<>>, sell_opportunities |-> <<>>,
           tickers_scanned |-> 0, total_opportunities |-> 0]}
    ELSE {[all_data |-> frame,
           buy_opportunities |-> f.buy,
           sell_opportunities |-> f.sell,
           tickers_scanned |-> Len(frame),
           total_opportunities |-> Len(f.buy) + Len(f.sell)] :
             f \in filter_opportunities(frame, DISPERSION_THRESHOLD)}

\* get_opportunities_summary after its scan_all_tickers call
Summarize ==
    /\ pc = "scanned"
    /\ summary' \in summary_of(df)
    /\ pc' = "summarized"
    /\ UNCHANGED <<tickers, i, results, log, df, f_thr, f_out>>
    /\ UNCHANGED engineVars /\ UNCHANGED classifyVars /\ UNCHANGED hostVars

Next == ScanStep \/ ScanFinish \/ FilterCall \/ Summarize

Spec == Init /\ [][Next]_vars

----------------------------------------------------------------------------
(* Claims about scan_all_tickers, filter_opportunities and the summary     *)

IsProcessing(rec) == rec.msg = "Processing"
IsCouldNotGet(rec) == rec.msg = "Could not get data"

\* the "Processing ..." records, one per ticker the loop has started on
Attempts == SelectSeq(log, IsProcessing)

Rows(frame) == {frame[k] : k \in 1..Len(frame)}

\* how many rows of the frame equal r
Count(frame, r) == Cardinality({k \in 1..Len(frame) : frame[k] = r})

SameRows(f, g) == Len(f) = Len(g) /\ \A r \in Rows(f) \cup Rows(g) : Count(f, r) = Count(g, r)

NonDecreasing(frame) ==
    \A a, b \in 1..Len(frame) :
        a < b => Le(frame[a].dispersion_pct, frame[b].dispersion_pct)

NonIncreasing(frame) ==
    \A a, b \in 1..Len(frame) :
        a < b => Ge(frame[a].dispersion_pct, frame[b].dispersion_pct)

\* position of a symbol in ascending symbol order
SymbolRank(t) == IF t = "ARKK" THEN 1 ELSE 2

\* C3 (as claimed): the returned results are non-decreasing by dispersion_pct
\* and results with equal dispersion_pct are ordered ascending by ticker.
C3_TiesByTicker ==
    pc = "scanned" =>
        /\ NonDecreasing(df)
        /\ \A a, b \in 1..Len(df) :
              (a < b /\ df[a].dispersion_pct = df[b].dispersion_pct)
                  => SymbolRank(df[a].ticker) <= SymbolRank(df[b].ticker)

\* C3 (amended): the returned results are the successful results ordered
\* non-decreasing by dispersion_pct; the order of results with equal
\* dispersion_pct is not fixed by the ticker symbol (the frame is sorted on
\* dispersion_pct alone).
C3_SortedByDispersion ==
    pc \in {"scanned", "summarized", "filtered"} =>
        NonDecreasing(df) /\ SameRows(df, results)

\* C3 witness: two results collected in descending order were returned in
\* ascending order
C3_Witness ==
    /\ pc = "scanned" /\ Len(results) = 2
    /\ Lt(results[2].dispersion_pct, results[1].dispersion_pct)
    /\ df = <<results[2], results[1]>>

\* C6: filter_opportunities never places the same result in both the buy
\* list and the sell list, for every frame and every threshold > 0.
C6_BuySellDisjoint ==
    /\ pc = "filtered" => Rows(f_out.buy) \cap Rows(f_out.sell) = {}
    /\ pc = "summarized" =>
          Rows(summary.buy_opportunities) \cap Rows(summary.sell_opportunities) = {}

\* C6 witness: a call filled both lists
C6_Witness == pc = "filtered" /\ Len(f_out.buy) >= 1 /\ Len(f_out.sell) >= 1

\* C7 (as claimed): in every summary, list membership agrees with the signal
\* field: a HOLD result is in neither list, every result of the buy list has
\* signal BUY and every result of the sell list has signal SELL.
C7_ListsAgreeWithSignal ==
    pc = "summarized" =>
        /\ \A r \in Rows(summary.all_data) :
              r.signal = "HOLD" =>
                  /\ r \notin Rows(summary.buy_opportunities)
                  /\ r \notin Rows(summary.sell_opportunities)
        /\ \A r \in Rows(summary.buy_opportunities) : r.signal = "BUY"
        /\ \A r \in Rows(summary.sell_opportunities) : r.signal = "SELL"

\* C8: filter_opportunities(df, t) returns as buy list exactly the results
\* with dispersion_pct <= -t, most negative first, and as sell list exactly
\* the results with dispersion_pct >= t, most positive first; no result is
\* lost or duplicated within a list.
C8_ListsExactAndOrdered ==
    pc = "filtered" =>
        /\ \A r \in Rows(df) \cup Rows(f_out.buy) :
              Count(f_out.buy, r) =
                  IF Le(r.dispersion_pct, Neg(f_thr)) THEN Count(df, r) ELSE 0
        /\ \A r \in Rows(df) \cup Rows(f_out.sell) :
              Count(f_out.sell, r) =
                  IF Ge(r.dispersion_pct, f_thr) THEN Count(df, r) ELSE 0
        /\ NonDecreasing(f_out.buy)
        /\ NonIncreasing(f_out.sell)

\* C8 witness: a sell list of two results, the larger dispersion first, was
\* returned for a frame that also holds a result outside both lists
C8_Witness ==
    /\ pc = "filtered" /\ Len(f_out.sell) = 2
    /\ Lt(f_out.sell[2].dispersion_pct, f_out.sell[1].dispersion_pct)

----------------------------------------------------------------------------
(* Claims about classify_signal                                            *)

\* C1: classify_signal(x, t) returns exactly one of BUY, SELL, HOLD for every
\* x and every t > 0: BUY iff x <= -t, SELL iff x >= t, HOLD otherwise; the
\* boundary is inclusive (x = -t is BUY, x = t is SELL).
C1_ClassifyTotalInclusive ==
    c_pc = "called" =>
        /\ c_out \in {"BUY", "SELL", "HOLD"}
        /\ (c_out = "BUY") <=> (c_x <= -c_t)
        /\ (c_out = "SELL") <=> (c_x >= c_t)
        /\ (c_out = "HOLD") <=> (-c_t < c_x /\ c_x < c_t)

\* C1 witness: a call exactly on the boundary returned a signal
C1_Witness == c_pc = "called" /\ c_x = -c_t /\ c_out = "BUY"

----------------------------------------------------------------------------
(* Claims about calculate_sma_dispersion and get_ticker_dispersion         *)

Called == e_pc \in {"calculated", "reported"}

NumRows == Len(e_feed.closes)

\* C4: with fewer than `period` rows calculate_sma_dispersion fails (returns
\* None and logs the "Insufficient data" warning with the row count); it
\* returns no series, partial or empty, and get_ticker_dispersion reports
\* nothing.
C4_ShortSeriesFails ==
    (Called /\ ~e_feed.raises /\ NumRows < e_period) =>
        /\ e_data = NoneDF
        /\ e_log = <<LogWarnInsufficient(EngineTicker, NumRows, e_period)>>
        /\ e_res = NoneResult

\* C4 witness: a non-empty series shorter than the period was refused
C4_Witness ==
    /\ e_pc = "calculated" /\ ~e_feed.raises
    /\ 0 < NumRows /\ NumRows < e_period /\ e_data.isNone

\* the value get_ticker_dispersion hands its caller for this feed
Observed(feed) == get_ticker_dispersion(EngineTicker, e_period, feed).ret

\* C5 (as claimed): the failure the caller observes for an empty series, or
\* for an unreachable feed, differs from the failure it observes for a
\* non-empty series shorter than the period.
C5_NoDataDistinguishable ==
    (e_pc = "reported" /\ ~e_feed.raises /\ 0 < NumRows /\ NumRows < e_period) =>
        /\ e_res # Observed(Returns(<<>>))
        /\ e_res # Observed(Raises)

\* C5 (amended): an empty series, an unreachable feed and a too-short series
\* all end in the same return value None, from calculate_sma_dispersion and
\* from get_ticker_dispersion; the causes differ only in what is logged: an
\* "Error processing" error for a raised exception, the "Insufficient data"
\* warning with the row count (0 for an empty series) otherwise.
C5_FailuresShareNone ==
    (Called /\ (e_feed.raises \/ NumRows = 0 \/ NumRows < e_period)) =>
        /\ e_data = NoneDF
        /\ e_res = NoneResult
        /\ e_res = Observed(Returns(<<>>))
        /\ e_res = Observed(Raises)
        /\ Len(e_log) = 1
        /\ e_feed.raises => e_log[1].msg = "Error processing"
        /\ ~e_feed.raises =>
              /\ e_log[1].msg = "Insufficient data"
              /\ e_log[1].n = NumRows

\* C5 witness: an empty download was answered with None
C5_Witness ==
    /\ e_pc = "calculated" /\ ~e_feed.raises /\ NumRows = 0
    /\ e_data.isNone /\ e_log[1].n = 0

\* the dates (row numbers) of the points calculate_sma_dispersion returned
PointDates == {e_data.rows[k].date : k \in 1..Len(e_data.rows)}

Ascending(rows) ==
    \A a, b \in 1..Len(rows) : a < b => rows[a].date < rows[b].date

Enough == e_pc = "calculated" /\ ~e_feed.raises /\ NumRows >= e_period

\* row k has a full window of closes, none of them missing
WindowPresent(k) ==
    /\ k >= e_period
    /\ \A j \in (k - e_period + 1)..k : ~IsNaN(e_feed.closes[j])

\* the closes of row k's window add up to zero and so does its own close: 0/0
ZeroOverZero(k) ==
    /\ SumRange(e_feed.closes, k - e_period + 1, k).num = 0
    /\ e_feed.closes[k].num = 0

\* C9 (as claimed): a series of n >= period rows yields exactly
\* n - period + 1 points in ascending date order, one for each row that has
\* `period` observations at or before it and none for earlier rows.
C9_ExactlyOnePointPerWindow ==
    Enough =>
        /\ ~e_data.isNone
        /\ Len(e_data.rows) = NumRows - e_period + 1
        /\ Ascending(e_data.rows)
        /\ PointDates = e_period..NumRows

\* C9 (amended): a series of n >= period rows yields, in ascending date
\* order, one point for each row that has `period` observations at or before
\* it, unless a close of its window is missing (NaN) or its dispersion is 0/0
\* (the window sums to zero and the close is zero): those rows are dropped,
\* so there are at most n - period + 1 points, and exactly that many when no
\* window holds a missing close or is 0/0.  No point precedes row `period`.
C9_OnePointPerDefinedWindow ==
    Enough =>
        /\ ~e_data.isNone
        /\ Ascending(e_data.rows)
        /\ PointDates = {k \in 1..NumRows : WindowPresent(k) /\ ~ZeroOverZero(k)}
        /\ Len(e_data.rows) = Cardinality(PointDates)
        /\ Len(e_data.rows) <= NumRows - e_period + 1
        /\ \A k \in PointDates : k >= e_period

\* C9 witness: a series longer than the period gave a point per full window
C9_Witness ==
    /\ Enough /\ e_period >= 2 /\ NumRows > e_period
    /\ Len(e_data.rows) = NumRows - e_period + 1

\* the trailing average of the feed's row k is zero
AverageIsZero(k) ==
    /\ WindowPresent(k)
    /\ SumRange(e_feed.closes, k - e_period + 1, k).num = 0

\* C10 (as claimed): where the trailing average is zero the dispersion is
\* 'no value': no non-finite dispersion survives in the output of
\* calculate_sma_dispersion, and get_ticker_dispersion never reports, or
\* classifies as BUY or SELL, a point whose moving average is zero.
C10_ZeroAverageIsNoValue ==
    /\ (Called /\ ~e_data.isNone) =>
          \A k \in 1..Len(e_data.rows) :
              /\ IsFinite(e_data.rows[k].Dispersion)
              /\ ~AverageIsZero(e_data.rows[k].date)
    /\ (e_pc = "reported" /\ ~e_res.isNone) =>
          /\ ~AverageIsZero(e_res.date)
          /\ IsFinite(e_res.dispersion_pct)

\* the dispersion of the feed's row k as the engine computes it, unrounded
DispersionAt(k) ==
    dispersion_of(e_feed.closes[k], rolling_mean(e_feed.closes, e_period, k))

\* the rows of the feed that yield a point: full window, no missing close,
\* dispersion not 0/0
DefinedDates == {k \in 1..NumRows : WindowPresent(k) /\ ~ZeroOverZero(k)}

LastOf(S) == CHOOSE k \in S : \A j \in S : j <= k

Reported == e_pc = "reported" /\ ~e_feed.raises /\ NumRows >= e_period

\* C11 (as claimed): for a series of at least `period` rows
\* get_ticker_dispersion returns the point of the last date of the input
\* series, and its signal is classify_signal of that point's dispersion with
\* the configured threshold.
C11_ReportsLastInputDate ==
    Reported =>
        /\ ~e_res.isNone
        /\ e_res.date = NumRows
        /\ e_res.signal = classify_signal(DispersionAt(NumRows), DISPERSION_THRESHOLD)

\* C11 (amended): for a series of at least `period` rows
\* get_ticker_dispersion returns the latest point that
\* calculate_sma_dispersion kept: the last date whose window holds no missing
\* close and whose dispersion is not 0/0.  That is the last date of the input
\* series when that date qualifies, an earlier date otherwise, and None when
\* no date qualifies.  The signal is classify_signal of the unrounded
\* dispersion of the reported point with the configured threshold, and the
\* reported values are that point's close, average and dispersion rounded
\* to two decimals.
C11_ReportsLastKeptPoint ==
    Reported =>
        IF DefinedDates = {}
        THEN e_res = NoneResult
        ELSE LET k == LastOf(DefinedDates)
             IN  /\ ~e_res.isNone
                 /\ e_res.date = k
                 /\ (k = NumRows) <=> (NumRows \in DefinedDates)
                 /\ e_res.signal = classify_signal(DispersionAt(k), DISPERSION_THRESHOLD)
                 /\ e_res.dispersion_pct = Round2(DispersionAt(k))
                 /\ e_res.close_price = Round2(e_feed.closes[k])
                 /\ e_res.sma = Round2(rolling_mean(e_feed.closes, e_period, k))

\* C11 witness: a series longer than the period, every date kept, reported
\* its last date with a BUY or SELL signal
C11_Witness ==
    /\ Reported /\ NumRows > e_period
    /\ Len(e_data.rows) = NumRows - e_period + 1
    /\ e_res.date = NumRows /\ e_res.signal \in {"BUY", "SELL"}

\* every close of the feed is the same positive price
ConstantSeries ==
    /\ ~e_feed.raises /\ NumRows >= 1
    /\ \A k \in 1..NumRows :
          e_feed.closes[k] = e_feed.closes[1] /\ Lt(Fin(0, 1), e_feed.closes[k])

\* C18: for a series of one constant price P > 0 with at least `period` rows
\* every point has moving average P and dispersion 0, every date from row
\* `period` on has a point, and the signal is HOLD for every threshold > 0
\* (the configured one included).
C18_ConstantSeriesHolds ==
    (Called /\ ConstantSeries /\ NumRows >= e_period) =>
        /\ ~e_data.isNone
        /\ Len(e_data.rows) = NumRows - e_period + 1
        /\ \A k \in 1..Len(e_data.rows) :
              /\ e_data.rows[k].SMA = e_feed.closes[1]
              /\ e_data.rows[k].Dispersion = Fin(0, 1)
              /\ \A t \in 1..MaxT :
                    classify_signal(e_data.rows[k].Dispersion, Fin(t, 2)) = "HOLD"
        /\ e_pc = "reported" =>
              /\ e_res.signal = "HOLD"
              /\ e_res.dispersion_pct = Fin(0, 1)
              /\ e_res.sma = e_feed.closes[1]

\* C18 witness: a constant series longer than a period of at least 2 was
\* measured and reported
C18_Witness ==
    /\ e_pc = "reported" /\ ConstantSeries
    /\ e_period >= 2 /\ NumRows > e_period
    /\ Len(e_data.rows) >= 2 /\ e_res.signal = "HOLD"

\* C19: 28 closes of 100 followed by a close of 80, period 29: exactly one
\* point, on the last date; its moving average is 2880/29 and its dispersion
\* (80*29 - 2880) / 2880 * 100, reported as 99.31 and -19.44; with the
\* threshold 15.0 the signal is BUY.
C19_DropScenario ==
    (Called /\ e_feed = ScenarioDrop /\ e_period = SMA_PERIOD) =>
        /\ ~e_data.isNone
        /\ Len(e_data.rows) = 1
        /\ e_data.rows[1].date = SMA_PERIOD
        /\ e_data.rows[1].SMA = Fin(2880, 29)
        /\ e_data.rows[1].Dispersion = Fin((80 * 29 - 2880) * 100, 2880)
        /\ classify_signal(e_data.rows[1].Dispersion, Fin(15, 1)) = "BUY"
        /\ e_pc = "reported" =>
              /\ e_res.close_price = Fin(80, 1)
              /\ e_res.sma = Fin(9931, 100)
              /\ e_res.dispersion_pct = Fin(-1944, 100)
              /\ e_res.signal = "BUY"

\* C19 witness: the scenario was reported as a BUY
C19_Witness ==
    /\ e_pc = "reported" /\ e_feed = ScenarioDrop /\ e_period = SMA_PERIOD
    /\ ~e_res.isNone /\ e_res.signal = "BUY"

----------------------------------------------------------------------------
(* Presentation: main.print_summary and the two e-mail bodies.  A rendered  *)
(* text is modelled as the sequence of its headings and statements, with    *)
(* the symbol of the row standing for each rendered row.                    *)

TickersOf(rows) == [k \in 1..Len(rows) |-> rows[k].ticker]

print_summary(s) ==
    <<"SCAN RESULTS">>
    \o (IF s.all_data # <<>>
        THEN <<"ALL TICKERS:">> \o TickersOf(s.all_data) ELSE <<>>)
    \o (IF s.buy_opportunities # <<>>
        THEN <<"BUY OPPORTUNITIES (Price significantly BELOW SMA):">>
             \o TickersOf(s.buy_opportunities)
        ELSE <<"No BUY opportunities detected">>)
    \o (IF s.sell_opportunities # <<>>
        THEN <<"SELL OPPORTUNITIES (Price significantly ABOVE SMA):">>
             \o TickersOf(s.sell_opportunities)
        ELSE <<"No SELL opportunities detected">>)

create_html_email(s) ==
    <<"NYSE Investment Opportunity Alert">>
    \o (IF s.buy_opportunities # <<>>
        THEN <<"BUY Opportunities">> \o TickersOf(s.buy_opportunities)
        ELSE <<"BUY Opportunities", "No buy opportunities detected at this time.">>)
    \o (IF s.sell_opportunities # <<>>
        THEN <<"SELL Opportunities">> \o TickersOf(s.sell_opportunities)
        ELSE <<"SELL Opportunities", "No sell opportunities detected at this time.">>)
    \o (IF s.all_data # <<>>
        THEN <<"All Tickers Summary">> \o TickersOf(s.all_data) ELSE <<>>)
    \o <<"Disclaimer">>

create_plain_text_email(s) ==
    <<"NYSE INVESTMENT OPPORTUNITY ALERT">>
    \o (IF s.buy_opportunities # <<>>
        THEN <<"BUY OPPORTUNITIES (Price below SMA)">> \o TickersOf(s.buy_opportunities)
        ELSE <<>>)
    \o (IF s.sell_opportunities # <<>>
        THEN <<"SELL OPPORTUNITIES (Price above SMA)">> \o TickersOf(s.sell_opportunities)
        ELSE <<>>)
    \o <<"ALL TICKERS SUMMARY">>
    \o (IF s.all_data # <<>> THEN TickersOf(s.all_data) ELSE <<>>)
    \o <<"Disclaimer">>

----------------------------------------------------------------------------
(* email_alerts.send_alert                                                 *)

\* EMAIL_CONFIG: each of the three required entries is set or empty
EmailConfigs ==
    [sender_email : {"", "sender@example.com"},
     sender_password : {"", "app-password"},
     recipient_email : {"", "recipient@example.com"}]

\* what the SMTP conversation does: the connection cannot be opened
\* (OSError), STARTTLS is refused (SMTPException), the login is refused
\* (SMTPAuthenticationError), the message is refused (SMTPException), the
\* message is accepted but QUIT is not answered with 221 on leaving the
\* `with` block (SMTPResponseException), or everything succeeds
SmtpOutcomes ==
    {"connect_error", "starttls_error", "auth_error", "send_error", "quit_error", "sent"}

\* the same without the test of EMAIL_CONFIG
send_alert_unchecked(s, test_mode, config, smtp) ==
         LET text_content == create_plain_text_email(s)
             html_content == create_html_email(s)
             msg == [called |-> TRUE, ret |-> FALSE, built |-> TRUE,
                     connected |-> FALSE, handed |-> FALSE,
                     text |-> text_content, html |-> html_content,
                     stdout |-> <<>>, log |-> <<>>]
         IN  IF test_mode
             THEN [msg EXCEPT !.ret = TRUE, !.stdout = text_content,
                              !.log = <<"TEST MODE - Email would be sent">>]
             ELSE IF smtp = "connect_error"
             THEN [msg EXCEPT !.log = <<"Connecting to SMTP server", "Failed to send email">>]
             ELSE IF smtp = "auth_error"
             THEN [msg EXCEPT !.connected = TRUE,
                              !.log = <<"Connecting to SMTP server",
                                        "SMTP Authentication failed">>]
             ELSE IF smtp \in {"starttls_error", "send_error"}
             THEN [msg EXCEPT !.connected = TRUE,
                              !.log = <<"Connecting to SMTP server", "SMTP error">>]
             ELSE IF smtp = "quit_error"
             THEN [msg EXCEPT !.connected = TRUE, !.handed = TRUE,
                              !.log = <<"Connecting to SMTP server", "SMTP error">>]
             ELSE [msg EXCEPT !.ret = TRUE, !.connected = TRUE, !.handed = TRUE,
                              !.log = <<"Connecting to SMTP server",
                                        "Email sent successfully">>]

\* returns what the call did: ret (the returned bool), built (the message
\* was composed), connected (an SMTP connection was opened), handed (the
\* server accepted the message), the two bodies, stdout and the log
send_alert(s, test_mode, config, smtp) ==
    IF config.sender_email = "" \/ config.sender_password = ""
          \/ config.recipient_email = ""
    THEN [called |-> TRUE, ret |-> FALSE, built |-> FALSE, connected |-> FALSE,
          handed |-> FALSE, text |-> <<>>, html |-> <<>>, stdout |-> <<>>,
          log |-> <<"Email configuration incomplete">>]
    ELSE LET text_content == create_plain_text_email(s)
             html_content == create_html_email(s)
             msg == [called |-> TRUE, ret |-> FALSE, built |-> TRUE,
                     connected |-> FALSE, handed |-> FALSE,
                     text |-> text_content, html |-> html_content,
                     stdout |-> <<>>, log |-> <<>>]
         IN  IF test_mode
             THEN [msg EXCEPT !.ret = TRUE, !.stdout = text_content,
                              !.log = <<"TEST MODE - Email would be sent">>]
             ELSE IF smtp = "connect_error"
             THEN [msg EXCEPT !.log = <<"Connecting to SMTP server", "Failed to send email">>]
             ELSE IF smtp = "auth_error"
             THEN [msg EXCEPT !.connected = TRUE,
                              !.log = <<"Connecting to SMTP server",
                                        "SMTP Authentication failed">>]
             ELSE IF smtp \in {"starttls_error", "send_error"}
             THEN [msg EXCEPT !.connected = TRUE,
                              !.log = <<"Connecting to SMTP server", "SMTP error">>]
             ELSE IF smtp = "quit_error"
             THEN [msg EXCEPT !.connected = TRUE, !.handed = TRUE,
                              !.log = <<"Connecting to SMTP server", "SMTP error">>]
             ELSE [msg EXCEPT !.ret = TRUE, !.connected = TRUE, !.handed = TRUE,
                              !.log = <<"Connecting to SMTP server",
                                        "Email sent successfully">>]

----------------------------------------------------------------------------
(* One call of send_alert on a summary of a two-ticker scan.               *)

\* what the feed does for one ticker of a run: raise, a drop to -19.44%
\* (BUY), no move (HOLD), a rise to 19.18% (SELL)
RunFeeds ==
    {Raises} \cup
    {Returns(ConstThen(SMA_PERIOD - 1, 100, c)) : c \in {80, 100, 120}}

\* the frames scan_all_tickers(tks) can return when the feed answers the
\* k-th ticker with feeds[k]
scan_all_tickers(tks, feeds) ==
    LET Result(k) == get_ticker_dispersion(tks[k], SMA_PERIOD, feeds[k]).ret
        Kept(r) == ~r.isNone
        found == SelectSeq([k \in 1..Len(tks) |-> Result(k)], Kept)
    IN  IF found = <<>> THEN {<<>>} ELSE sort_values(found, TRUE)

\* the dicts get_opportunities_summary(tks) can return
get_opportunities_summary(tks, feeds) ==
    UNION {summary_of(frame) : frame \in scan_all_tickers(tks, feeds)}

MailTickers == <<"ARKK", "CRESY">>

MailSummaries ==
    UNION {get_opportunities_summary(MailTickers, feeds) :
              feeds \in [1..Len(MailTickers) -> RunFeeds]}

\* a row of the fixture of send_test_email (the fixture has no date column)
FixtureRow(ticker, close, sma, pct, signal) ==
    [isNone |-> FALSE, ticker |-> ticker, date |-> 0, close_price |-> close,
     sma |-> sma, dispersion_pct |-> pct, signal |-> signal]

\* the dict test_summary of send_test_email (scan_time left out)
test_summary ==
    [all_data |->
        <<FixtureRow("TEST1", Fin(100, 1), Fin(120, 1), Fin(-1667, 100), "HOLD"),
          FixtureRow("TEST2", Fin(150, 1), Fin(120, 1), Fin(25, 1), "SELL"),
          FixtureRow("TEST3", Fin(80, 1), Fin(100, 1), Fin(-20, 1), "BUY")>>,
     buy_opportunities |->
        <<FixtureRow("TEST3", Fin(80, 1), Fin(100, 1), Fin(-20, 1), "BUY")>>,
     sell_opportunities |->
        <<FixtureRow("TEST2", Fin(150, 1), Fin(120, 1), Fin(25, 1), "SELL")>>,
     tickers_scanned |-> 3,
     total_opportunities |-> 2]

InitMail ==
    /\ ScanIdle /\ EngineIdle /\ ClassifyIdle /\ RunIdle /\ SchedIdle /\ ChartIdle
    /\ m_pc = "idle"
    /\ m_in \in [summary : MailSummaries, test_mode : BOOLEAN,
                 config : EmailConfigs, smtp : SmtpOutcomes]
    /\ m_out = NoMail

\* a caller invokes send_alert(summary, test_mode)
CallSendAlert ==
    /\ m_pc = "idle"
    /\ m_out' = send_alert(m_in.summary, m_in.test_mode, m_in.config, m_in.smtp)
    /\ m_pc' = "called"
    /\ UNCHANGED m_in
    /\ UNCHANGED scanVars /\ UNCHANGED engineVars /\ UNCHANGED classifyVars
    /\ UNCHANGED runVars /\ UNCHANGED schedVars /\ UNCHANGED chartVars

\* a caller invokes send_test_email(): send_alert on the fixture
CallSendTestEmail ==
    /\ m_pc = "idle"
    /\ m_in' = [m_in EXCEPT !.summary = test_summary, !.test_mode = FALSE]
    /\ m_out' = send_alert(test_summary, FALSE, m_in.config, m_in.smtp)
    /\ m_pc' = "tested"
    /\ UNCHANGED scanVars /\ UNCHANGED engineVars /\ UNCHANGED classifyVars
    /\ UNCHANGED runVars /\ UNCHANGED schedVars /\ UNCHANGED chartVars

NextMail == CallSendAlert \/ CallSendTestEmail

SpecMail == InitMail /\ [][NextMail]_vars

----------------------------------------------------------------------------
(* visualization.generate_all_charts and main.run_scan                     *)

\* what calculate_sma_dispersion(ticker) hands generate_all_charts: None for
\* an unreachable feed, an empty frame for closes that are all zero, a frame
\* with one row for the drop to -19.44%
ChartDatas ==
    {calculate_sma_dispersion(EngineTicker, SMA_PERIOD, feed).ret :
        feed \in {Raises, Returns(ConstThen(SMA_PERIOD - 1, 0, 0)),
                  Returns(ConstThen(SMA_PERIOD - 1, 100, 80))}}

\* what happens to one ticker of generate_all_charts: the data it gets, and
\* whether matplotlib renders and saves the figure without an exception
\* (looked at only when there is data to draw)
ChartInputs ==
    {c \in [data : ChartDatas, renders : BOOLEAN] :
        (c.data.isNone \/ c.data.rows = <<>>) => c.renders}

\* create_stock_chart: every exception is caught and answered with False
create_stock_chart(data, renders) == renders

\* the same without `failed.append(ticker)` for a ticker that has no data
generate_all_charts_skip(tks, makedirs_ok, inputs) ==
    IF ~makedirs_ok
    THEN [called |-> TRUE, raised |-> TRUE, total |-> 0, successful |-> 0,
          failed |-> 0, successful_tickers |-> <<>>, failed_tickers |-> <<>>]
    ELSE LET HasData(k) == ~(inputs[k].data.isNone \/ inputs[k].data.rows = <<>>)
             Saved(k) == HasData(k) /\ create_stock_chart(inputs[k].data, inputs[k].renders)
             NotSaved(k) == HasData(k) /\ ~Saved(k)
             index == [k \in 1..Len(tks) |-> k]
             successful == SelectSeq(index, Saved)
             failed == SelectSeq(index, NotSaved)
         IN  [called |-> TRUE, raised |-> FALSE,
              total |-> Len(tks),
              successful |-> Len(successful),
              failed |-> Len(failed),
              successful_tickers |-> [j \in 1..Len(successful) |-> tks[successful[j]]],
              failed_tickers |-> [j \in 1..Len(failed) |-> tks[failed[j]]]]

\* returns the chart summary, or raised when os.makedirs raises (line 192,
\* outside every try)
generate_all_charts(tks, makedirs_ok, inputs) ==
    IF ~makedirs_ok
    THEN [called |-> TRUE, raised |-> TRUE, total |-> 0, successful |-> 0,
          failed |-> 0, successful_tickers |-> <<>>, failed_tickers |-> <<>>]
    ELSE LET Saved(k) ==
                 LET data == inputs[k].data
                 IN  IF data.isNone \/ data.rows = <<>> THEN FALSE
                     ELSE create_stock_chart(data, inputs[k].renders)
             NotSaved(k) == ~Saved(k)
             index == [k \in 1..Len(tks) |-> k]
             successful == SelectSeq(index, Saved)
             failed == SelectSeq(index, NotSaved)
         IN  [called |-> TRUE, raised |-> FALSE,
              total |-> Len(tks),
              successful |-> Len(successful),
              failed |-> Len(failed),
              successful_tickers |-> [j \in 1..Len(successful) |-> tks[successful[j]]],
              failed_tickers |-> [j \in 1..Len(failed) |-> tks[failed[j]]]]

\* the calls of generate_all_charts: a list of tickers, what os.makedirs does,
\* and what happens to each entry of the list
ChartCalls ==
    UNION {{[tickers |-> t, makedirs_ok |-> b, inputs |-> f] :
               b \in BOOLEAN, f \in [1..Len(t) -> ChartInputs]} :
           t \in SeqsUpTo(Tickers, MaxTickers)}

InitCharts ==
    /\ ScanIdle /\ EngineIdle /\ ClassifyIdle /\ RunIdle /\ MailIdle /\ SchedIdle
    /\ g_pc = "idle"
    /\ g_in \in ChartCalls
    /\ g_out = NoChartSummary

CallGenerateAllCharts ==
    /\ g_pc = "idle"
    /\ g_out' = generate_all_charts(g_in.tickers, g_in.makedirs_ok, g_in.inputs)
    /\ g_pc' = "called"
    /\ UNCHANGED g_in
    /\ UNCHANGED scanVars /\ UNCHANGED engineVars /\ UNCHANGED classifyVars
    /\ UNCHANGED runVars /\ UNCHANGED mailVars /\ UNCHANGED schedVars

NextCharts == CallGenerateAllCharts

SpecCharts == InitCharts /\ [][NextCharts]_vars

\* config.TICKERS, cut down to three entries with a symbol listed twice
TICKERS == <<"ARKK", "CRESY", "ARKK">>

\* the list of test mode
TestTickers == <<"AAPL", "MSFT", "GOOGL">>

\* the tickers argument: None, or a list
NoneList == [isNone |-> TRUE, list |-> <<>>]
SomeList(l) == [isNone |-> FALSE, list |-> l]

RunArgs ==
    [tickers : {NoneList} \cup {SomeList(l) : l \in SeqsUpTo(Tickers, MaxTickers)},
     send_email : BOOLEAN, test_mode : BOOLEAN, generate_charts : BOOLEAN]

InitRun ==
    /\ ScanIdle /\ EngineIdle /\ ClassifyIdle /\ MailIdle /\ SchedIdle /\ ChartIdle
    /\ r_pc = "idle"
    /\ r_args \in RunArgs
    /\ r_tickers = <<>> /\ r_summary = Unassigned /\ r_out = <<>> /\ r_log = <<>>
    /\ r_charts = NoCharts /\ r_mail = NoMail /\ r_ret = Unassigned
    /\ r_exit = -1

RunFrame ==
    /\ UNCHANGED scanVars /\ UNCHANGED engineVars /\ UNCHANGED classifyVars
    /\ UNCHANGED mailVars /\ UNCHANGED schedVars /\ UNCHANGED chartVars

\* run_scan up to print_summary: banner, choice of the list, the scan
RunScan ==
    /\ r_pc = "idle"
    /\ LET tks == IF r_args.test_mode THEN TestTickers
                  ELSE IF r_args.tickers.isNone THEN TICKERS
                  ELSE r_args.tickers.list
       IN  /\ r_tickers' = tks
           /\ \E feeds \in [1..Len(tks) -> RunFeeds] :
                 r_summary' \in get_opportunities_summary(tks, feeds)
           /\ r_log' = (IF r_args.test_mode
                        THEN <<"Running in TEST MODE with 3 tickers">> ELSE <<>>)
                       \o <<"Starting scan">>
    /\ r_out' = <<"BANNER">> \o print_summary(r_summary')
    /\ r_pc' = "scanned"
    /\ UNCHANGED <<r_args, r_charts, r_mail, r_ret, r_exit>>
    /\ RunFrame

\* the `if generate_charts:` block; an exception of generate_all_charts
\* leaves run_scan
RunCharts ==
    /\ r_pc = "scanned"
    /\ IF ~r_args.generate_charts
       THEN /\ r_pc' = "charted"
            /\ UNCHANGED <<r_charts, r_out, r_log>>
       ELSE \E makedirs_ok \in BOOLEAN,
               inputs \in [1..Len(r_tickers) -> ChartInputs] :
                LET g == generate_all_charts(r_tickers, makedirs_ok, inputs)
                IN  /\ r_charts' = [called |-> TRUE, raised |-> g.raised,
                                    total |-> g.total, successful |-> g.successful,
                                    failed |-> g.failed]
                    /\ r_log' = Append(r_log, "Generating individual charts")
                    /\ IF g.raised
                       THEN r_pc' = "raised" /\ r_out' = r_out
                       ELSE /\ r_pc' = "charted"
                            /\ r_out' = r_out \o <<"CHART GENERATION RESULTS">>
                                  \o (IF g.successful_tickers # <<>>
                                      THEN <<"Charts generated for">> ELSE <<>>)
    /\ UNCHANGED <<r_args, r_tickers, r_summary, r_mail, r_ret, r_exit>>
    /\ RunFrame

\* the `if send_email and not test_mode:` block
RunEmail ==
    /\ r_pc = "charted"
    /\ IF r_args.send_email /\ ~r_args.test_mode
       THEN IF r_summary.total_opportunities > 0
            THEN \E config \in EmailConfigs, smtp \in SmtpOutcomes :
                    LET a == send_alert(r_summary, FALSE, config, smtp)
                    IN  /\ r_mail' = a
                        /\ r_log' = r_log \o <<"Opportunities detected, sending email alert">>
                              \o (IF a.ret THEN <<"Email alert sent successfully!">>
                                  ELSE <<"Failed to send email alert">>)
            ELSE /\ r_mail' = r_mail
                 /\ r_log' = Append(r_log, "No opportunities detected, skipping email")
       ELSE IF r_args.test_mode
            THEN /\ r_mail' = r_mail
                 /\ r_log' = Append(r_log, "Test mode: Email sending disabled")
            ELSE UNCHANGED <<r_mail, r_log>>
    /\ r_pc' = "mailed"
    /\ UNCHANGED <<r_args, r_tickers, r_summary, r_out, r_charts, r_ret, r_exit>>
    /\ RunFrame

\* the completion log and `return summary`
RunReturn ==
    /\ r_pc = "mailed"
    /\ r_log' = Append(r_log, "Scan completed")
    /\ r_ret' = r_summary
    /\ r_pc' = "returned"
    /\ UNCHANGED <<r_args, r_tickers, r_summary, r_out, r_charts, r_mail, r_exit>>
    /\ RunFrame

\* the same returning 0 whenever run_scan returned
main_zero(raised, s) == IF raised THEN 1 ELSE 0

\* the exit code of main after run_scan: `return 0 if
\* summary['tickers_scanned'] > 0 else 1`, and 1 from both except clauses
main(raised, s) ==
    IF raised THEN 1
    ELSE IF s.tickers_scanned > 0 THEN 0 ELSE 1

\* main takes the value or the exception of run_scan and returns
MainReturn ==
    /\ r_pc \in {"returned", "raised"}
    /\ r_exit' = main(r_pc = "raised", r_ret)
    /\ r_pc' = "exited"
    /\ UNCHANGED <<r_args, r_tickers, r_summary, r_out, r_log, r_charts, r_mail, r_ret>>
    /\ RunFrame

NextRun == RunScan \/ RunCharts \/ RunEmail \/ RunReturn \/ MainReturn

SpecRun == InitRun /\ [][NextRun]_vars

----------------------------------------------------------------------------
(* scheduler.py: scheduled_scan, run_scheduler and the command line        *)

\* one thing scheduled_scan did on the weekday it read from the clock
Ev(msg, weekday) == [msg |-> msg, weekday |-> weekday]

\* what run_scan does when scheduled_scan calls it
RunOutcomes == {"returned", "raised"}

\* a call of scheduled_scan that returned normally after doing `did`
Done(did) == [did |-> did, raised |-> FALSE]

\* the same with the weekend test written `today > 5`
scheduled_scan_sunday(today, outcome) ==
    IF today > 5
    THEN Done(<<Ev("SCAN SKIPPED", today)>>)
    ELSE Done(<<Ev("SCHEDULED SCAN STARTED", today), Ev("run_scan", today)>>
              \o (IF outcome = "returned"
                  THEN <<Ev("Scheduled scan completed successfully", today)>>
                  ELSE <<Ev("Error during scheduled scan", today)>>)
              \o <<Ev("SCHEDULED SCAN FINISHED", today)>>)

\* the same without the try around run_scan: its exception leaves
\* scheduled_scan
scheduled_scan_nocatch(today, outcome) ==
    IF today >= 5
    THEN Done(<<Ev("SCAN SKIPPED", today)>>)
    ELSE IF outcome = "raised"
    THEN [did |-> <<Ev("SCHEDULED SCAN STARTED", today), Ev("run_scan", today)>>,
          raised |-> TRUE]
    ELSE Done(<<Ev("SCHEDULED SCAN STARTED", today), Ev("run_scan", today),
                Ev("Scheduled scan completed successfully", today),
                Ev("SCHEDULED SCAN FINISHED", today)>>)

\* what one call of scheduled_scan does when the clock says `today`
scheduled_scan(today, outcome) ==
    IF today >= 5
    THEN Done(<<Ev("SCAN SKIPPED", today)>>)
    ELSE Done(<<Ev("SCHEDULED SCAN STARTED", today), Ev("run_scan", today)>>
              \o (IF outcome = "returned"
                  THEN <<Ev("Scheduled scan completed successfully", today)>>
                  ELSE <<Ev("Error during scheduled scan", today)>>)
              \o <<Ev("SCHEDULED SCAN FINISHED", today)>>)

\* where the process is after a call of scheduled_scan: an exception that
\* leaves the call ends the process
AfterScan(r, next) == IF r.raised THEN "crashed" ELSE next

InitSched ==
    /\ ScanIdle /\ EngineIdle /\ ClassifyIdle /\ RunIdle /\ MailIdle /\ ChartIdle
    /\ s_pc = "boot"
    /\ s_mode \in {"once", "run_now", "daily"}
    /\ s_today \in 0..6
    /\ s_elapsed = 0
    /\ s_passed \in BOOLEAN
    /\ s_log = <<>>

SchedFrame ==
    /\ UNCHANGED scanVars /\ UNCHANGED engineVars /\ UNCHANGED classifyVars
    /\ UNCHANGED runVars /\ UNCHANGED mailVars /\ UNCHANGED chartVars

\* --once: one call of scheduled_scan, then exit
BootOnce ==
    /\ s_pc = "boot" /\ s_mode = "once"
    /\ \E outcome \in RunOutcomes :
          LET r == scheduled_scan(s_today, outcome)
          IN  s_log' = s_log \o r.did /\ s_pc' = AfterScan(r, "exited")
    /\ UNCHANGED <<s_mode, s_today, s_elapsed, s_passed>>
    /\ SchedFrame

\* --run-now: one call of scheduled_scan, then run_scheduler
BootRunNow ==
    /\ s_pc = "boot" /\ s_mode = "run_now"
    /\ \E outcome \in RunOutcomes :
          LET r == scheduled_scan(s_today, outcome)
          IN  s_log' = s_log \o r.did /\ s_pc' = AfterScan(r, "loop")
    /\ UNCHANGED <<s_mode, s_today, s_elapsed, s_passed>>
    /\ SchedFrame

\* no flag: run_scheduler
BootDaily ==
    /\ s_pc = "boot" /\ s_mode = "daily"
    /\ s_pc' = "loop"
    /\ UNCHANGED <<s_mode, s_today, s_elapsed, s_passed, s_log>>
    /\ SchedFrame

\* run_pending finds the daily job due: later today when the scan time is
\* still ahead, else on the next day
JobFires ==
    /\ s_pc = "loop"
    /\ IF ~s_passed
       THEN s_today' = s_today /\ s_elapsed' = s_elapsed
       ELSE /\ s_elapsed < MaxDays
            /\ s_today' = (s_today + 1) % 7
            /\ s_elapsed' = s_elapsed + 1
    /\ s_passed' = TRUE
    /\ \E outcome \in RunOutcomes :
          LET r == scheduled_scan(s_today', outcome)
          IN  s_log' = s_log \o r.did /\ s_pc' = AfterScan(r, "loop")
    /\ UNCHANGED s_mode
    /\ SchedFrame

\* Ctrl+C in the loop: sys.exit(0)
StopByUser ==
    /\ s_pc = "loop"
    /\ s_pc' = "exited"
    /\ UNCHANGED <<s_mode, s_today, s_elapsed, s_passed, s_log>>
    /\ SchedFrame

NextSched == BootOnce \/ BootRunNow \/ BootDaily \/ JobFires \/ StopByUser

SpecSched == InitSched /\ [][NextSched]_vars

\* the loop of run_scheduler polls run_pending every minute: while the
\* process runs, a job that is due is started
SpecSchedLive == SpecSched /\ WF_vars(JobFires)

----------------------------------------------------------------------------
(* Claims about run_scan, send_alert, the rendered outputs and the         *)
(* scheduler                                                               *)

\* run_scan is over: it returned, or an exception left it
RunEnded == r_pc \in {"returned", "raised"}

\* send_alert answered False; a chart was not produced, or
\* generate_all_charts raised
EmailFailed == r_mail.called /\ ~r_mail.ret
ChartsFailed == r_charts.called /\ (r_charts.raised \/ r_charts.failed > 0)

\* C12 (as claimed): a failure in a presentation step does not suppress the
\* results: when send_alert fails, or chart generation fails for a ticker or
\* as a whole (the output directory cannot be created), run_scan still
\* returns the summary it computed, unchanged.
C12_PresentationFailureKeepsSummary ==
    (RunEnded /\ (EmailFailed \/ ChartsFailed)) =>
        /\ r_pc = "returned"
        /\ r_ret = r_summary

\* the scan of run_scan found no symbol
ZeroSymbols == r_pc # "idle" /\ r_summary.all_data = <<>>

\* C14 (as claimed): when no symbol succeeds the summary is well formed
\* (tickers_scanned = 0, total_opportunities = 0, empty all_data, buy and
\* sell lists) and run_scan completes on it: it prints the summary, sends
\* no email and returns the summary.
C14_ZeroSymbolsStillReturned ==
    ZeroSymbols =>
        /\ r_summary.tickers_scanned = 0
        /\ r_summary.total_opportunities = 0
        /\ r_summary.buy_opportunities = <<>>
        /\ r_summary.sell_opportunities = <<>>
        /\ ~r_mail.called
        /\ r_pc # "raised"
        /\ RunEnded => r_ret = r_summary

\* the statements the renderers use for an empty list
NoBuyStatements ==
    {"No BUY opportunities detected", "No buy opportunities detected at this time."}
NoSellStatements ==
    {"No SELL opportunities detected", "No sell opportunities detected at this time."}

Says(doc, statements) == \E k \in 1..Len(doc) : doc[k] \in statements

\* C15 (as claimed): the console summary, the HTML body and the plain-text
\* body each render an empty buy list as an explicit 'no buy opportunities'
\* statement and an empty sell list as an explicit 'no sell opportunities'
\* statement.
C15_EmptyListsRenderedExplicitly ==
    (m_pc = "called" /\ m_out.built) =>
        \A doc \in {print_summary(m_in.summary), m_out.html, m_out.text} :
            /\ m_in.summary.buy_opportunities = <<>> => Says(doc, NoBuyStatements)
            /\ m_in.summary.sell_opportunities = <<>> => Says(doc, NoSellStatements)

\* C16 (as claimed): run_scan attempts to send an email if and only if
\* send_email is true, test_mode is false and the summary has at least one
\* opportunity.
C16_EmailIffEnabledAndFound ==
    RunEnded =>
        (r_mail.called <=>
            (r_args.send_email /\ ~r_args.test_mode
                /\ r_summary.total_opportunities > 0))

\* C17 (as claimed): send_alert returns True exactly when the message was
\* handed to the SMTP server, and False on every configuration,
\* authentication or transport failure.
C17_TrueIffHandedToServer ==
    m_pc = "called" => (m_out.ret <=> m_out.handed)

\* the calls of run_scan among what scheduled_scan did
IsRunScan(ev) == ev.msg = "run_scan"
IsSkip(ev) == ev.msg = "SCAN SKIPPED"

\* C13: on every entry path of the scheduler (daily job, --run-now, --once)
\* run_scan is called only when the day read from the clock is Monday to
\* Friday; on Saturday and Sunday scheduled_scan only logs that the scan is
\* skipped.
C13_NoScanOnWeekend ==
    \A k \in 1..Len(s_log) :
        /\ IsRunScan(s_log[k]) => s_log[k].weekday \in 0..4
        /\ s_log[k].weekday \in {5, 6} <=> IsSkip(s_log[k])
        /\ s_log[k].weekday \in 0..6

\* C13 witness: started with --run-now on a Sunday, the process skipped that
\* day and later scanned on a weekday
C13_Witness ==
    /\ s_mode = "run_now" /\ Len(s_log) >= 2
    /\ IsSkip(s_log[1]) /\ s_log[1].weekday = 6
    /\ \E k \in 2..Len(s_log) : IsRunScan(s_log[k])

----------------------------------------------------------------------------
(* Claims about the fixture of send_test_email                             *)

\* the TEST2 row of the fixture
Test2 == test_summary.all_data[2]

\* C21: for close 150.0 and moving average 120.0 the dispersion is exactly
\* 25.0 percent and, with the threshold 15.0, the signal is SELL: the values
\* the TEST2 row of the send_test_email fixture carries.
C21_Test2IsSell ==
    (Called /\ e_feed = ScenarioRise /\ e_period = SMA_PERIOD) =>
        /\ ~e_data.isNone /\ Len(e_data.rows) = 1
        /\ e_data.rows[1].Close = Fin(150, 1)
        /\ e_data.rows[1].SMA = Fin(120, 1)
        /\ e_data.rows[1].Dispersion = Fin(25, 1)
        /\ classify_signal(e_data.rows[1].Dispersion, Fin(15, 1)) = "SELL"
        /\ Test2.ticker = "TEST2"
        /\ e_pc = "reported" =>
              /\ e_res.close_price = Test2.close_price
              /\ e_res.sma = Test2.sma
              /\ e_res.dispersion_pct = Test2.dispersion_pct
              /\ e_res.signal = Test2.signal

\* C21 witness: the engine reported close 150 over average 120 as a SELL
C21_Witness ==
    /\ e_pc = "reported" /\ e_feed = ScenarioRise
    /\ e_res.close_price = Fin(150, 1) /\ e_res.sma = Fin(120, 1)
    /\ e_res.signal = "SELL"

\* C28 (as claimed): the fixture of send_test_email is consistent with the
\* engine under the configured threshold: every row's signal is
\* classify_signal of its dispersion_pct, its buy and sell lists are what
\* filter_opportunities returns for its all_data, and total_opportunities
\* is the combined length of those lists.
C28_FixtureMatchesEngine ==
    m_pc = "tested" =>
        LET s == m_in.summary
        IN  /\ \A k \in 1..Len(s.all_data) :
                  s.all_data[k].signal =
                      classify_signal(s.all_data[k].dispersion_pct, DISPERSION_THRESHOLD)
            /\ [buy |-> s.buy_opportunities, sell |-> s.sell_opportunities]
                  \in filter_opportunities(s.all_data, DISPERSION_THRESHOLD)
            /\ s.total_opportunities =
                  Len(s.buy_opportunities) + Len(s.sell_opportunities)

----------------------------------------------------------------------------
(* Claims about the rows and the counts of a summary                       *)

\* the symbols of the rows of a frame
SymbolsOf(frame) == {frame[k].ticker : k \in 1..Len(frame)}

\* C22 (as claimed): the scanned frame holds at most one row per ticker
\* symbol and tickers_scanned is the number of distinct symbols scanned,
\* for every input list, the default TICKERS included.
C22_OneRowPerSymbol ==
    r_pc \notin {"unused", "idle"} =>
        /\ \A a, b \in 1..Len(r_summary.all_data) :
              a # b => r_summary.all_data[a].ticker # r_summary.all_data[b].ticker
        /\ r_summary.tickers_scanned = Cardinality(SymbolsOf(r_summary.all_data))

\* C23: every summary get_opportunities_summary returns has tickers_scanned
\* = number of rows of all_data, total_opportunities = len(buy) + len(sell),
\* every buy and sell row among the rows of all_data, and
\* 0 <= total_opportunities <= tickers_scanned <= number of input tickers.
C23_SummaryCountsAgree ==
    pc = "summarized" =>
        /\ summary.tickers_scanned = Len(summary.all_data)
        /\ summary.total_opportunities =
              Len(summary.buy_opportunities) + Len(summary.sell_opportunities)
        /\ Rows(summary.buy_opportunities) \subseteq Rows(summary.all_data)
        /\ Rows(summary.sell_opportunities) \subseteq Rows(summary.all_data)
        /\ 0 <= summary.total_opportunities
        /\ summary.total_opportunities <= summary.tickers_scanned
        /\ summary.tickers_scanned <= Len(tickers)

\* C23 witness: two tickers given, both scanned, one a BUY and one a SELL
C23_Witness ==
    /\ pc = "summarized" /\ Len(tickers) = 2
    /\ summary.tickers_scanned = 2
    /\ Len(summary.buy_opportunities) = 1 /\ Len(summary.sell_opportunities) = 1

----------------------------------------------------------------------------
(* Claims about the second implementation of the engine                    *)

\* C24 (as claimed): the calculate_sma_dispersion of dispersion_scanner.py
\* and the one of price_sma_dispersion.py agree on every series and period:
\* when one returns a series the other returns the same points, and when
\* one fails (empty series, fewer rows than the period) the other fails too.
C24_ImplementationsAgree ==
    e_pc = "calculated_psd" =>
        LET c == calculate_sma_dispersion(EngineTicker, e_period, e_feed).ret
        IN  /\ c.isNone <=> e_alt.raises
            /\ ~c.isNone => e_alt.rows = c.rows

----------------------------------------------------------------------------
(* Claims about when send_alert reaches the SMTP server                    *)

ConfigComplete ==
    /\ m_in.config.sender_email # "" /\ m_in.config.sender_password # ""
    /\ m_in.config.recipient_email # ""

\* C25: send_alert contacts the SMTP server only when test_mode is false and
\* sender address, sender password and recipient address are all non-empty;
\* with test_mode true it does no more than print the plain-text body (and
\* does print it, returning True, when the configuration is complete); with
\* an incomplete configuration it returns False before building, printing or
\* sending anything.
C25_SmtpOnlyWhenLiveAndConfigured ==
    m_pc \in {"called", "tested"} =>
        /\ m_out.connected => (~m_in.test_mode /\ ConfigComplete)
        /\ m_out.handed => m_out.connected
        /\ m_in.test_mode =>
              /\ ~m_out.connected /\ ~m_out.handed
              /\ m_out.stdout \in {<<>>, create_plain_text_email(m_in.summary)}
              /\ ConfigComplete =>
                    /\ m_out.stdout = create_plain_text_email(m_in.summary)
                    /\ m_out.ret
        /\ ~ConfigComplete =>
              /\ ~m_out.ret /\ ~m_out.built /\ ~m_out.connected
              /\ m_out.text = <<>> /\ m_out.html = <<>> /\ m_out.stdout = <<>>
        /\ ~m_in.test_mode => m_out.stdout = <<>>

\* C25 witness: a test-mode call with a complete configuration printed the
\* body and left the server alone
C25_Witness ==
    /\ m_pc = "called" /\ m_in.test_mode /\ ConfigComplete
    /\ m_out.stdout # <<>> /\ m_out.stdout = m_out.text
    /\ ~m_out.connected /\ m_out.ret

----------------------------------------------------------------------------
(* Claims about the scheduler after a failed scan                          *)

IsError(ev) == ev.msg = "Error during scheduled scan"
IsFinished(ev) == ev.msg = "SCHEDULED SCAN FINISHED"

\* the latest call of scheduled_scan caught an exception of run_scan
LastScanFailed ==
    /\ Len(s_log) >= 2
    /\ IsError(s_log[Len(s_log) - 1]) /\ IsFinished(s_log[Len(s_log)])

\* the job has run on the current day: a skip on a weekend, a scan otherwise
JobRanToday ==
    LET n == Len(s_log)
    IN  /\ n >= 1 /\ s_log[n].weekday = s_today
        /\ IF s_today >= 5 THEN IsSkip(s_log[n])
           ELSE n >= 4 /\ IsFinished(s_log[n]) /\ IsRunScan(s_log[n - 2])

\* every caught exception is followed by the FINISHED line, and no
\* exception ends the process
ErrorsAreContained ==
    /\ s_pc # "crashed"
    /\ \A k \in 1..Len(s_log) :
          IsError(s_log[k]) => (k < Len(s_log) /\ IsFinished(s_log[k + 1]))

\* C26: an exception of run_scan inside scheduled_scan never stops the
\* scheduler: scheduled_scan catches it, logs 'SCHEDULED SCAN FINISHED' and
\* returns; the loop of run_scheduler keeps running, and unless the user
\* stops the process the job is started again on the next day (a scan when
\* that day is a weekday, a skip otherwise).
C26_SchedulerSurvivesFailedScan ==
    /\ []ErrorsAreContained
    /\ [][(s_pc = "loop" /\ Len(s_log') > Len(s_log)) => s_pc' = "loop"]_vars
    /\ \A d \in 0..(MaxDays - 1) :
          (LastScanFailed /\ s_pc = "loop" /\ s_elapsed = d)
              ~> (s_pc = "exited" \/ (s_elapsed = d + 1 /\ JobRanToday))

\* C26 witness: a scan failed on one day and the job scanned again on the
\* next day
C26_Witness ==
    /\ s_pc = "loop" /\ s_elapsed >= 1 /\ JobRanToday /\ s_today \in 1..4
    /\ Len(s_log) >= 8
    /\ IsError(s_log[Len(s_log) - 5]) /\ s_log[Len(s_log) - 5].weekday = s_today - 1

----------------------------------------------------------------------------
(* Claims about generate_all_charts                                        *)

\* how often symbol s stands in the list l
Occurrences(l, s) == Cardinality({k \in 1..Len(l) : l[k] = s})

\* entry k of the input gets no chart: no data, or the rendering failed
NoChart(k) ==
    \/ g_in.inputs[k].data.isNone
    \/ g_in.inputs[k].data.rows = <<>>
    \/ ~g_in.inputs[k].renders

ChartsReturned == g_pc = "called" /\ ~g_out.raised

\* C27: generate_all_charts partitions its input: when it returns, total is
\* the length of the list, successful + failed = total, the counts are the
\* lengths of the two lists, and every occurrence of a symbol is in exactly
\* one of them: in failed_tickers when its data is missing or its rendering
\* failed, in successful_tickers otherwise, whatever happened to the others.
C27_ChartsPartitionInput ==
    ChartsReturned =>
        /\ g_out.total = Len(g_in.tickers)
        /\ g_out.successful + g_out.failed = g_out.total
        /\ g_out.successful = Len(g_out.successful_tickers)
        /\ g_out.failed = Len(g_out.failed_tickers)
        /\ \A s \in Tickers :
              /\ Occurrences(g_out.failed_tickers, s)
                    = Cardinality({k \in 1..Len(g_in.tickers) :
                                      g_in.tickers[k] = s /\ NoChart(k)})
              /\ Occurrences(g_out.successful_tickers, s)
                    = Cardinality({k \in 1..Len(g_in.tickers) :
                                      g_in.tickers[k] = s /\ ~NoChart(k)})

\* C27 witness: a symbol listed twice has no data the first time and is drawn
\* the second time
C27_Witness ==
    /\ ChartsReturned
    /\ Len(g_in.tickers) = 2 /\ g_in.tickers[1] = g_in.tickers[2]
    /\ g_in.inputs[1].data.isNone /\ ~NoChart(2)
    /\ g_out.failed_tickers = <<g_in.tickers[1]>>
    /\ g_out.successful_tickers = <<g_in.tickers[2]>>

----------------------------------------------------------------------------
(* Claims about the exit code of main                                      *)

MainExited == r_pc = "exited"

\* run_scan returned its summary (it did not raise)
RunCompleted == r_ret # Unassigned

\* C29: outside --test-email, main returns 0 exactly when run_scan completed
\* without raising and tickers_scanned > 0, and 1 otherwise; the exit code
\* does not depend on whether the email was sent, skipped or failed.
C29_ExitCode ==
    MainExited =>
        /\ r_exit \in {0, 1}
        /\ r_exit = 0 <=> (RunCompleted /\ r_ret.tickers_scanned > 0)

\* C29 witness: the alert could not be sent and main still returns 0
C29_Witness ==
    /\ MainExited /\ r_exit = 0
    /\ r_mail.called /\ ~r_mail.ret

====
